---------------------------- MODULE Spec2Model ----------------------------
(***************************************************************************)
(* A model of mdtogo (src/mdtogo/main.go): the run of main() as a state    *)
(* machine over the file system, and the pure functions parse,             *)
(* cleanUpContent and doc.String as operators over character sequences.    *)
(*                                                                         *)
(* A Go string is modelled as a sequence of one-character strings.         *)
(***************************************************************************)
EXTENDS Naturals, Sequences, FiniteSets

VARIABLES
    \* ---- the run of main() (specification Spec) ----
    args,        \* os.Args, args[1] the program name
    tree,        \* the files under the source directory
    destDir,     \* the destination directory on disk: "missing" or "dir"
    docsGo,      \* DEST/docs.go on disk: "absent", "old", "partial" or "written"
    fs0,         \* the file system as the run found it: [destDir, docsGo]
    recursive,   \* var recursive bool
    licenseFile, \* var licenseFile string
    source,      \* local source of main
    dest,        \* local dest of main
    files,       \* the paths readFiles returned
    idx,         \* position of the loop over files
    docs,        \* var docs []doc
    license,     \* local license of main
    out,         \* the content handed to ioutil.WriteFile
    ioLog,       \* the file-system calls made so far, in order, with their outcome
    stderr,      \* what was printed to standard error
    exitCode,    \* the process's exit code once pc = "exited" (0 until then)
    pc,          \* position of main
    \* ---- the pure functions (specifications SpecParse, SpecClean) ----
    input,       \* the text given to the function
    result,      \* what the function returned
    phase        \* "ready" before the call, "called" after

mainVars == <<args, tree, destDir, docsGo, fs0, recursive, licenseFile, source, dest,
              files, idx, docs, license, out, ioLog, stderr, exitCode, pc>>
funVars == <<input, result, phase>>
vars == <<args, tree, destDir, docsGo, fs0, recursive, licenseFile, source, dest,
          files, idx, docs, license, out, ioLog, stderr, exitCode, pc,
          input, result, phase>>

-----------------------------------------------------------------------------
(* Go's strings package, on sequences of characters.                       *)

Min(S) == CHOOSE x \in S : \A y \in S : x <= y

\* strings.HasPrefix(s, p)
HasPrefix(s, p) == Len(p) <= Len(s) /\ SubSeq(s, 1, Len(p)) = p

\* s[i:] starts with p (1-based i)
HasPrefixAt(s, i, p) ==
    /\ i + Len(p) - 1 <= Len(s)
    /\ (p = <<>> \/ s[i] = p[1])
    /\ SubSeq(s, i, i + Len(p) - 1) = p

\* The first position >= i at which p occurs in s, 0 when there is none.
IndexFrom(s, i, p) ==
    LET js == {j \in i..(Len(s) + 1 - Len(p)) : s[j] = p[1] /\ HasPrefixAt(s, j, p)}
    IN  IF js = {} THEN 0 ELSE Min(js)

RECURSIVE ReplaceFrom(_, _, _, _)
ReplaceFrom(s, i, old, new) ==
    IF i > Len(s) THEN <<>>
    ELSE IF HasPrefixAt(s, i, old)
         THEN new \o ReplaceFrom(s, i + Len(old), old, new)
         ELSE <<s[i]>> \o ReplaceFrom(s, i + 1, old, new)

\* strings.ReplaceAll(s, old, new), old non-empty: non-overlapping, left to right
ReplaceAll(s, old, new) == ReplaceFrom(s, 1, old, new)

\* The white space of strings.TrimSpace and of the regexp class \s.
WhiteSpace == {" ", "\n", "\t", "\r", "\f"}

\* strings.Trim(s, cutset), cutset a set of characters
Trim(s, cutset) ==
    LET keep == {i \in 1..Len(s) : s[i] \notin cutset}
    IN  IF keep = {} THEN <<>>
        ELSE SubSeq(s, Min(keep), CHOOSE i \in keep : \A j \in keep : j <= i)

\* strings.TrimSpace(s)
TrimSpace(s) == Trim(s, WhiteSpace)

RECURSIVE JoinFrom(_, _, _)
JoinFrom(parts, i, sep) ==
    IF i > Len(parts) THEN <<>>
    ELSE IF i = Len(parts) THEN parts[i]
    ELSE parts[i] \o sep \o JoinFrom(parts, i + 1, sep)

\* strings.Join(parts, sep)
Join(parts, sep) == JoinFrom(parts, 1, sep)

\* bufio.ScanLines drops one trailing carriage return of a line.
DropCR(line) ==
    IF Len(line) > 0 /\ line[Len(line)] = "\r" THEN SubSeq(line, 1, Len(line) - 1) ELSE line

\* The tokens of a bufio.Scanner with the default split function ScanLines:
\* the text cut at every newline; a final line without newline is a token
\* when it is not empty.
RECURSIVE ScanLines(_)
ScanLines(s) ==
    IF s = <<>> THEN <<>>
    ELSE LET j == IndexFrom(s, 1, <<"\n">>)
         IN  IF j = 0 THEN <<DropCR(s)>>
             ELSE <<DropCR(SubSeq(s, 1, j - 1))>> \o ScanLines(SubSeq(s, j + 1, Len(s)))

-----------------------------------------------------------------------------
(* cleanUpContent                                                          *)

\* The backtick character (a TLA+ string cannot hold one, so it is named).
Backtick == "BACKTICK"
\* the three backticks of a fence delimiter
Fence == <<Backtick, Backtick, Backtick>>
Indent == <<" ", " ">>
\* The replacement of a backtick: backtick, space, plus, space, a quoted
\* backtick, space, plus, space, backtick.
Escape == <<Backtick, " ", "+", " ", "\"", Backtick, "\"", " ", "+", " ", Backtick>>

\* The loop of cleanUpContent over the scanner's lines, from line i on, with
\* the toggle indent; the lines appended.
RECURSIVE CleanLines(_, _, _)
CleanLines(lines, i, indent) ==
    IF i > Len(lines) THEN <<>>
    ELSE IF HasPrefix(lines[i], Fence)
         THEN CleanLines(lines, i + 1, ~indent)
         ELSE LET line == IF indent THEN Indent \o lines[i] ELSE lines[i]
              IN  <<ReplaceAll(line, <<Backtick>>, Escape)>>
                      \o CleanLines(lines, i + 1, indent)

\* strings.Replace(s, old, new, 1): the first occurrence only
ReplaceFirst(s, old, new) ==
    LET j == IndexFrom(s, 1, old)
    IN  IF j = 0 THEN s
        ELSE SubSeq(s, 1, j - 1) \o new \o SubSeq(s, j + Len(old), Len(s))

RECURSIVE CleanLinesEscapeFirst(_, _, _)
CleanLinesEscapeFirst(lines, i, indent) ==
    IF i > Len(lines) THEN <<>>
    ELSE IF HasPrefix(lines[i], Fence)
         THEN CleanLinesEscapeFirst(lines, i + 1, ~indent)
         ELSE LET line == IF indent THEN Indent \o lines[i] ELSE lines[i]
              IN  <<ReplaceFirst(line, <<Backtick>>, Escape)>>
                      \o CleanLinesEscapeFirst(lines, i + 1, indent)

\* cleanUpContent escaping only the first backtick of a line
cleanUpContentEscapeFirst(text) ==
    <<"\n">> \o Join(CleanLinesEscapeFirst(ScanLines(Trim(text, {"\n"})), 1, FALSE),
                     <<"\n">>)
            \o <<"\n">>

RECURSIVE CleanLinesFenceKept(_, _, _)
CleanLinesFenceKept(lines, i, indent) ==
    IF i > Len(lines) THEN <<>>
    ELSE LET toggled == IF HasPrefix(lines[i], Fence) THEN ~indent ELSE indent
             line == IF toggled THEN Indent \o lines[i] ELSE lines[i]
         IN  <<ReplaceAll(line, <<Backtick>>, Escape)>>
                 \o CleanLinesFenceKept(lines, i + 1, toggled)

\* cleanUpContent without the continue of the fence branch: the delimiter
\* line toggles and is then handled like any other line
cleanUpContentFenceKept(text) ==
    <<"\n">> \o Join(CleanLinesFenceKept(ScanLines(Trim(text, {"\n"})), 1, FALSE),
                     <<"\n">>)
            \o <<"\n">>

cleanUpContent(text) ==
    <<"\n">> \o Join(CleanLines(ScanLines(Trim(text, {"\n"})), 1, FALSE), <<"\n">>)
            \o <<"\n">>

-----------------------------------------------------------------------------
(* path/filepath and strings.Title, as far as parse and main use them.     *)
(* The paths of the model hold no "." or ".." element and no doubled       *)
(* slash, so filepath.Clean changes none of them.                          *)

Max(S) == CHOOSE x \in S : \A y \in S : y <= x

\* The position of the last c in s, 0 when there is none.
LastIndex(s, c) ==
    LET js == {j \in 1..Len(s) : s[j] = c}
    IN  IF js = {} THEN 0 ELSE Max(js)

\* filepath.Join(dir, name), both non-empty
PathJoin(dir, name) == dir \o <<"/">> \o name

\* filepath.Dir(path)
Dir(path) ==
    LET j == LastIndex(path, "/")
    IN  IF j = 0 THEN <<".">>
        ELSE IF j = 1 THEN <<"/">>
        ELSE SubSeq(path, 1, j - 1)

\* The file part of filepath.Split(path): what follows the last slash.
SplitFile(path) == SubSeq(path, LastIndex(path, "/") + 1, Len(path))

\* filepath.Base(path), path without trailing slash
Base(path) == IF path = <<>> THEN <<".">> ELSE SplitFile(path)

\* filepath.Ext(name): the suffix from the last dot of the last element
Ext(name) ==
    LET f == SplitFile(name)
        j == LastIndex(f, ".")
    IN  IF j = 0 THEN <<>> ELSE SubSeq(f, j, Len(f))

LowerCase == <<"a", "b", "c", "d", "e", "f", "g", "h", "i", "j", "k", "l", "m",
               "n", "o", "p", "q", "r", "s", "t", "u", "v", "w", "x", "y", "z">>
UpperCase == <<"A", "B", "C", "D", "E", "F", "G", "H", "I", "J", "K", "L", "M",
               "N", "O", "P", "Q", "R", "S", "T", "U", "V", "W", "X", "Y", "Z">>
Digits == {"0", "1", "2", "3", "4", "5", "6", "7", "8", "9"}

\* unicode.ToTitle on ASCII
ToTitle(c) ==
    IF \E i \in 1..Len(LowerCase) : LowerCase[i] = c
    THEN UpperCase[CHOOSE i \in 1..Len(LowerCase) : LowerCase[i] = c]
    ELSE c

\* isSeparator of package strings, on ASCII: letters, digits and the
\* underscore are not separators, every other character is.
IsSeparator(c) ==
    ~ (\/ \E i \in 1..Len(LowerCase) : LowerCase[i] = c \/ UpperCase[i] = c
       \/ c \in Digits
       \/ c = "_")

RECURSIVE TitleFrom(_, _, _)
TitleFrom(s, i, prev) ==
    IF i > Len(s) THEN <<>>
    ELSE <<IF IsSeparator(prev) THEN ToTitle(s[i]) ELSE s[i]>> \o TitleFrom(s, i + 1, s[i])

\* strings.Title(s): the first letter of every word in title case
Title(s) == TitleFrom(s, 1, " ")

-----------------------------------------------------------------------------
(* The two regular expressions and parse                                   *)

Short == <<"S", "h", "o", "r", "t">>
Long == <<"L", "o", "n", "g">>
Examples == <<"E", "x", "a", "m", "p", "l", "e", "s">>
\* the alternation (Short|Long|Examples); no name is a prefix of another
FieldNames == {Short, Long, Examples}

\* <!--mdtogo:
TagOpen == <<"<", "!", "-", "-", "m", "d", "t", "o", "g", "o", ":">>
\* -->
TagEnd == <<"-", "-", ">">>
\* <!--mdtogo-->
TagClose == <<"<", "!", "-", "-", "m", "d", "t", "o", "g", "o", "-", "-", ">">>

NoMatch == [field |-> <<>>, content |-> <<>>, next |-> 0]

\* mdtogoTag anchored at position i of s:
\*   <!--mdtogo:(Short|Long|Examples)-->([\s\S]*?)<!--mdtogo-->
\* The lazy group ends at the nearest closing marker. field is match[1],
\* content is match[2], next the position after the match.
mdtogoTagAt(s, i) ==
    LET n  == i + Len(TagOpen)
        fs == {f \in FieldNames :
                 /\ HasPrefixAt(s, i, TagOpen)
                 /\ HasPrefixAt(s, n, f)
                 /\ HasPrefixAt(s, n + Len(f), TagEnd)}
    IN  IF fs = {} THEN NoMatch
        ELSE LET f == CHOOSE x \in fs : TRUE
                 c == i + Len(TagOpen) + Len(f) + Len(TagEnd)
                 j == IndexFrom(s, c, TagClose)
             IN  IF j = 0 THEN NoMatch
                 ELSE [field |-> f, content |-> SubSeq(s, c, j - 1),
                       next |-> j + Len(TagClose)]

\* mdtogoInternalTag anchored at position i of s:
\*   <!--mdtogo:(Short|Long|Examples)\s+?([\s\S]*?)-->
\* The lazy \s+? takes one white-space character, the lazy group what follows
\* up to the nearest -->.
mdtogoInternalTagAt(s, i) ==
    LET n  == i + Len(TagOpen)
        fs == {f \in FieldNames :
                 /\ HasPrefixAt(s, i, TagOpen)
                 /\ HasPrefixAt(s, n, f)
                 /\ n + Len(f) <= Len(s)
                 /\ s[n + Len(f)] \in WhiteSpace}
    IN  IF fs = {} THEN NoMatch
        ELSE LET f == CHOOSE x \in fs : TRUE
                 c == i + Len(TagOpen) + Len(f) + 1
                 j == IndexFrom(s, c, TagEnd)
             IN  IF j = 0 THEN NoMatch
                 ELSE [field |-> f, content |-> SubSeq(s, c, j - 1),
                       next |-> j + Len(TagEnd)]

\* mdtogoTag.FindAllStringSubmatch(s, -1) from position i on: the leftmost
\* match, then the matches after its end (no match is empty). A match starts
\* where the literal prefix of the expression occurs, so the scan goes from
\* one occurrence of it to the next.
RECURSIVE FindAllTag(_, _)
FindAllTag(s, i) ==
    LET c == IndexFrom(s, i, TagOpen)
    IN  IF c = 0 THEN <<>>
        ELSE LET m == mdtogoTagAt(s, c)
             IN  IF m = NoMatch THEN FindAllTag(s, c + 1)
                 ELSE <<[field |-> m.field, content |-> m.content]>>
                          \o FindAllTag(s, m.next)

\* mdtogoInternalTag.FindAllStringSubmatch(s, -1) from position i on
RECURSIVE FindAllInternalTag(_, _)
FindAllInternalTag(s, i) ==
    LET c == IndexFrom(s, i, TagOpen)
    IN  IF c = 0 THEN <<>>
        ELSE LET m == mdtogoInternalTagAt(s, c)
             IN  IF m = NoMatch THEN FindAllInternalTag(s, c + 1)
                 ELSE <<[field |-> m.field, content |-> m.content]>>
                          \o FindAllInternalTag(s, m.next)

\* the two lists appended the other way round
MatchesHiddenFirst(value) == FindAllInternalTag(value, 1) \o FindAllTag(value, 1)

\* matches of parse: the visible-form matches, then the hidden-form ones
Matches(value) == FindAllTag(value, 1) \o FindAllInternalTag(value, 1)

\* var doc doc
EmptyDoc == [Name |-> <<>>, Short |-> <<>>, Long |-> <<>>, Examples |-> <<>>]

\* the switch with every field trimmed like Short
ApplyMatchTrimAll(d, match) ==
    IF match.field = Short THEN [d EXCEPT !.Short = TrimSpace(match.content)]
    ELSE IF match.field = Long THEN [d EXCEPT !.Long = TrimSpace(match.content)]
    ELSE IF match.field = Examples THEN [d EXCEPT !.Examples = TrimSpace(match.content)]
    ELSE d

\* One turn of the loop of parse: the switch on match[1].
ApplyMatch(d, match) ==
    IF match.field = Short THEN [d EXCEPT !.Short = TrimSpace(match.content)]
    ELSE IF match.field = Long THEN [d EXCEPT !.Long = cleanUpContent(match.content)]
    ELSE IF match.field = Examples
         THEN [d EXCEPT !.Examples = cleanUpContent(match.content)]
    ELSE d

RECURSIVE ApplyMatches(_, _, _)
ApplyMatches(d, matches, i) ==
    IF i > Len(matches) THEN d
    ELSE ApplyMatches(ApplyMatch(d, matches[i]), matches, i + 1)

\* name of parse: the directory of the file, title-cased, dashes removed
DocName(path) == ReplaceAll(Title(SplitFile(Dir(path))), <<"-">>, <<>>)

parse(path, value) ==
    [ApplyMatches(EmptyDoc, Matches(value), 1) EXCEPT !.Name = DocName(path)]

-----------------------------------------------------------------------------
(* doc.String: the declarations of a record. A declaration                 *)
(*   var <name> = <backtick><val><backtick>                                *)
(* is the record [name, val]; String joins them with newlines.             *)

\* the field of record d that the field identifier f names
FieldOf(d, f) == IF f = Short THEN d.Short ELSE IF f = Long THEN d.Long ELSE d.Examples

\* String without the tests for empty fields
docStringAllFields(d) ==
    << [name |-> d.Name \o Short, val |-> d.Short],
       [name |-> d.Name \o Long, val |-> d.Long],
       [name |-> d.Name \o Examples, val |-> d.Examples] >>

docString(d) ==
    (IF d.Short # <<>> THEN <<[name |-> d.Name \o Short, val |-> d.Short]>> ELSE <<>>)
 \o (IF d.Long # <<>> THEN <<[name |-> d.Name \o Long, val |-> d.Long]>> ELSE <<>>)
 \o (IF d.Examples # <<>>
     THEN <<[name |-> d.Name \o Examples, val |-> d.Examples]>> ELSE <<>>)

-----------------------------------------------------------------------------
(* The pure functions on their own: a text is drawn, the function is       *)
(* called on it.                                                           *)

\* the longest text drawn for cleanUpContent, in pieces
MaxCleanPieces == 6
\* the longest text drawn for parse, in pieces
MaxParsePieces == 5

\* The texts made of at most n pieces of P, each piece a run of characters.
RECURSIVE TextsOf(_, _)
TextsOf(P, n) ==
    IF n = 0 THEN {<<>>}
    ELSE LET T == TextsOf(P, n - 1) IN T \cup {t \o p : t \in T, p \in P}

\* Pieces of the texts given to cleanUpContent: single characters, a
\* carriage return with its newline, and a run of three backticks.
CleanPieces == {<<Backtick>>, <<"a">>, <<" ">>, <<"\n">>, <<"\r", "\n">>, Fence}

\* Pieces of the texts given to parse: the opening of a visible-form region,
\* the opening of a hidden-form region with its white space, the two
\* closings, and content. The openings name Short or Long; Examples takes
\* the branch of Long in parse, and the files of the run of main() hold
\* Examples regions.
ParseFields == {Short, Long}
ParsePieces ==
    {TagOpen \o f \o TagEnd : f \in ParseFields}
        \cup {TagOpen \o f \o <<" ">> : f \in ParseFields}
        \cup {TagClose, TagEnd, <<"x">>, <<" ">>}

\* the path of the file whose text parse is given
ParsePath == <<"d", "o", "c", "s", "/", "g", "e", "t", "-", "p", "k", "g", "/",
               "R", "E", "A", "D", "M", "E", ".", "m", "d">>

\* main() is not running in the specifications of the pure functions.
MainIdle ==
    /\ args = <<>> /\ tree = <<>> /\ destDir = "missing" /\ docsGo = "absent"
    /\ fs0 = [destDir |-> "missing", docsGo |-> "absent"]
    /\ recursive = FALSE /\ licenseFile = <<>> /\ source = <<>> /\ dest = <<>>
    /\ files = <<>> /\ idx = 1 /\ docs = <<>> /\ license = "" /\ out = <<>>
    /\ ioLog = <<>> /\ stderr = <<>> /\ exitCode = 0 /\ pc = "idle"

InitClean ==
    /\ MainIdle
    /\ input \in TextsOf(CleanPieces, MaxCleanPieces)
    /\ result = <<>>
    /\ phase = "ready"

CallCleanUpContent ==
    /\ phase = "ready"
    /\ result' = cleanUpContent(input)
    /\ phase' = "called"
    /\ UNCHANGED <<input, mainVars>>

SpecClean == InitClean /\ [][CallCleanUpContent]_vars

InitParse ==
    /\ MainIdle
    /\ input \in TextsOf(ParsePieces, MaxParsePieces)
    /\ result = EmptyDoc
    /\ phase = "ready"

CallParse ==
    /\ phase = "ready"
    /\ result' = parse(ParsePath, input)
    /\ phase' = "called"
    /\ UNCHANGED <<input, mainVars>>

SpecParse == InitParse /\ [][CallParse]_vars

-----------------------------------------------------------------------------
(* The run of main()                                                       *)

\* the number of .md files the source directory itself may hold
MaxFiles == 2

\* the words of the command lines
Prog == <<"m", "d", "t", "o", "g", "o">>
SrcDir == <<"s", "r", "c">>
DstDir == <<"o", "u", "t">>
FlagRecursive == <<"-", "-", "r", "e", "c", "u", "r", "s", "i", "v", "e", "=",
                   "t", "r", "u", "e">>
LicensePrefix == <<"-", "-", "l", "i", "c", "e", "n", "s", "e", "=">>
None == <<"n", "o", "n", "e">>
LicensePath == <<"h", "d", "r", ".", "t", "x", "t">>
DocsGo == <<"d", "o", "c", "s", ".", "g", "o">>

\* the command lines drawn: os.Args, the program name first
ArgVectors ==
    { <<Prog>>,
      <<Prog, SrcDir>>,
      <<Prog, SrcDir, FlagRecursive>>,
      <<Prog, SrcDir, LicensePrefix \o None>>,
      <<Prog, SrcDir, DstDir>>,
      <<Prog, SrcDir, DstDir, FlagRecursive>>,
      <<Prog, SrcDir, DstDir, LicensePrefix \o None>>,
      <<Prog, SrcDir, DstDir, LicensePrefix \o LicensePath>>,
      <<Prog, SrcDir, DstDir, FlagRecursive, LicensePrefix \o LicensePath>>,
      <<Prog, FlagRecursive, SrcDir, DstDir>> }

\* the texts of the .md files drawn
TextShortLong ==
    TagOpen \o Short \o TagEnd \o <<"\n", "a", "\n">> \o TagClose \o <<"\n">>
        \o TagOpen \o Long \o <<"\n", "x", " ", Backtick, "y", Backtick, "\n">> \o TagEnd
TextShortExamples ==
    TagOpen \o Short \o TagEnd \o <<"b">> \o TagClose \o <<"\n">>
        \o TagOpen \o Examples \o TagEnd
        \o <<"\n">> \o Fence \o <<"s", "h", "\n", "k", "\n">> \o Fence \o <<"\n">>
        \o TagClose
TextNoTags == <<"#", " ", "t", "\n">>
SampleTexts == {TextShortLong, TextShortExamples, TextNoTags}

\* the files a source directory may hold, in the lexical order of
\* ioutil.ReadDir and filepath.Walk: f1.md, f2.md, ..., get-pkg/f1.md,
\* notes.txt
DigitOf == <<"1", "2", "3", "4", "5", "6", "7", "8", "9">>
SubDir == <<"g", "e", "t", "-", "p", "k", "g">>
MdName(i) == <<"f", DigitOf[i], ".", "m", "d">>
Slots ==
    [i \in 1..MaxFiles |-> [rel |-> MdName(i), inSub |-> FALSE]]
        \o << [rel |-> PathJoin(SubDir, MdName(1)), inSub |-> TRUE],
              [rel |-> <<"n", "o", "t", "e", "s", ".", "t", "x", "t">>, inSub |-> FALSE] >>

Absent == <<"absent">>

\* The source trees drawn: every slot absent or holding one of the texts
\* (notes.txt, which is never read, holds TextNoTags).
RECURSIVE TreeFrom(_, _)
TreeFrom(pick, i) ==
    IF i > Len(Slots) THEN <<>>
    ELSE (IF pick[i] = Absent THEN <<>>
          ELSE <<[rel |-> Slots[i].rel, inSub |-> Slots[i].inSub, text |-> pick[i]]>>)
         \o TreeFrom(pick, i + 1)
Trees ==
    {TreeFrom(pick, 1) :
        pick \in {q \in [1..Len(Slots) -> SampleTexts \cup {Absent}] :
                     q[Len(Slots)] \in {Absent, TextNoTags}}}

\* readFiles(source) when the directory can be read: the paths of the .md
\* files, of the directory itself or, with recursive set, of the whole tree.
readFiles(src, rec, tr) ==
    LET keep(e) == (rec \/ ~ e.inSub) /\ Ext(e.rel) = <<".", "m", "d">>
        kept == SelectSeq(tr, keep)
    IN  [i \in 1..Len(kept) |-> PathJoin(src, kept[i].rel)]

\* what ioutil.ReadFile(path) returns for a file of the source tree
TextAt(src, tr, path) ==
    LET i == CHOOSE j \in 1..Len(tr) : PathJoin(src, tr[j].rel) = path
    IN  tr[i].text

UsageMessage == "Usage: mdtogo SOURCE_MD_DIR/ DEST_GO_DIR/\n"
ErrorMessage == "%v\n"
DefaultLicense ==
    "// Copyright 2019 The Kubernetes Authors.\n// SPDX-License-Identifier: Apache-2.0"
FileLicense == "the content of the license file"

FunIdle == input = <<>> /\ result = <<>> /\ phase = "idle"

Init ==
    /\ FunIdle
    /\ args \in ArgVectors
    /\ tree \in Trees
    /\ destDir \in {"missing", "dir"}
    /\ docsGo \in (IF destDir = "dir" THEN {"absent", "old"} ELSE {"absent"})
    /\ fs0 = [destDir |-> destDir, docsGo |-> docsGo]
    /\ recursive = FALSE /\ licenseFile = <<>> /\ source = <<>> /\ dest = <<>>
    /\ files = <<>> /\ idx = 1 /\ docs = <<>> /\ license = "" /\ out = <<>>
    /\ ioLog = <<>> /\ stderr = <<>> /\ exitCode = 0
    /\ pc = "flags"

\* fmt.Fprintf(os.Stderr, ...); os.Exit(1)
Fail(msg) ==
    /\ stderr' = Append(stderr, msg)
    /\ exitCode' = 1
    /\ pc' = "exited"

\* the value of licenseFile after the loop over os.Args from argument i on
RECURSIVE LicenseFlag(_, _, _)
LicenseFlag(as, i, cur) ==
    IF i > Len(as) THEN cur
    ELSE LicenseFlag(as, i + 1,
                     IF HasPrefix(as[i], LicensePrefix)
                     THEN ReplaceAll(as[i], LicensePrefix, <<>>)
                     ELSE cur)

\* main, lines 54-61: the loop over os.Args setting the two globals
ScanFlags ==
    /\ pc = "flags"
    /\ recursive' = (\E i \in 1..Len(args) : args[i] = FlagRecursive)
    /\ licenseFile' = LicenseFlag(args, 1, <<>>)
    /\ pc' = "usage"
    /\ UNCHANGED <<args, tree, destDir, docsGo, fs0, source, dest, files, idx, docs,
                   license, out, ioLog, stderr, exitCode, funVars>>

\* main, lines 63-68
CheckUsage ==
    /\ pc = "usage"
    /\ \/ /\ Len(args) < 3
          /\ Fail(UsageMessage)
          /\ UNCHANGED <<source, dest>>
       \/ /\ Len(args) >= 3
          /\ source' = args[2]
          /\ dest' = args[3]
          /\ pc' = "readFiles"
          /\ UNCHANGED <<stderr, exitCode>>
    /\ UNCHANGED <<args, tree, destDir, docsGo, fs0, recursive, licenseFile, files, idx,
                   docs, license, out, ioLog, funVars>>

\* main, lines 70-74: readFiles(source); the directory can be read or not
ReadFilesStep ==
    /\ pc = "readFiles"
    /\ \E ok \in BOOLEAN :
          /\ ioLog' = Append(ioLog, [op |-> "ReadDir", path |-> source, ok |-> ok])
          /\ IF ok
             THEN /\ files' = readFiles(source, recursive, tree)
                  /\ pc' = "loop"
                  /\ UNCHANGED <<stderr, exitCode>>
             ELSE /\ Fail(ErrorMessage)
                  /\ UNCHANGED files
    /\ UNCHANGED <<args, tree, destDir, docsGo, fs0, recursive, licenseFile, source, dest,
                   idx, docs, license, out, funVars>>

\* the loop going on to the next file when one cannot be read
ReadFileStepSkipUnreadable ==
    /\ pc = "loop"
    /\ idx <= Len(files)
    /\ \E ok \in BOOLEAN :
          /\ ioLog' = Append(ioLog, [op |-> "ReadFile", path |-> files[idx], ok |-> ok])
          /\ docs' = IF ok
                     THEN Append(docs, parse(files[idx], TextAt(source, tree, files[idx])))
                     ELSE docs
          /\ idx' = idx + 1
          /\ UNCHANGED <<stderr, exitCode, pc>>
    /\ UNCHANGED <<args, tree, destDir, docsGo, fs0, recursive, licenseFile, source, dest,
                   files, license, out, funVars>>

\* main, lines 77-86, one turn of the loop: the file can be read or not
ReadFileStep ==
    /\ pc = "loop"
    /\ idx <= Len(files)
    /\ \E ok \in BOOLEAN :
          /\ ioLog' = Append(ioLog, [op |-> "ReadFile", path |-> files[idx], ok |-> ok])
          /\ IF ok
             THEN /\ docs' = Append(docs, parse(files[idx], TextAt(source, tree, files[idx])))
                  /\ idx' = idx + 1
                  /\ UNCHANGED <<stderr, exitCode, pc>>
             ELSE /\ Fail(ErrorMessage)
                  /\ UNCHANGED <<docs, idx>>
    /\ UNCHANGED <<args, tree, destDir, docsGo, fs0, recursive, licenseFile, source, dest,
                   files, license, out, funVars>>

\* main, lines 88-103: the switch on licenseFile, entered when the loop is over
LicenseStep ==
    /\ pc = "loop"
    /\ idx > Len(files)
    /\ IF licenseFile = <<>>
       THEN /\ license' = DefaultLicense
            /\ pc' = "build"
            /\ UNCHANGED <<ioLog, stderr, exitCode>>
       ELSE IF licenseFile = None
       THEN /\ license' = ""
            /\ pc' = "build"
            /\ UNCHANGED <<ioLog, stderr, exitCode>>
       ELSE \E ok \in BOOLEAN :
               /\ ioLog' = Append(ioLog, [op |-> "ReadFile", path |-> licenseFile,
                                          ok |-> ok])
               /\ IF ok
                  THEN /\ license' = FileLicense
                       /\ pc' = "build"
                       /\ UNCHANGED <<stderr, exitCode>>
                  ELSE /\ Fail(ErrorMessage)
                       /\ UNCHANGED license
    /\ UNCHANGED <<args, tree, destDir, docsGo, fs0, recursive, licenseFile, source, dest,
                   files, idx, docs, out, funVars>>

\* main, lines 105-111: the header and one block per record
BuildOut ==
    /\ pc = "build"
    /\ out' = <<[license |-> license, package |-> Base(dest),
                 blocks |-> [i \in 1..Len(docs) |-> docString(docs[i])]]>>
    /\ pc' = "stat"
    /\ UNCHANGED <<args, tree, destDir, docsGo, fs0, recursive, licenseFile, source, dest,
                   files, idx, docs, license, ioLog, stderr, exitCode, funVars>>

\* the test of the os.Stat error inverted: os.Mkdir of a directory that
\* exists fails and changes nothing, a missing one is left missing
StatMkdirInverted ==
    /\ pc = "stat"
    /\ IF destDir = "dir"
       THEN ioLog' = Append(ioLog, [op |-> "Mkdir", path |-> dest, ok |-> FALSE])
       ELSE UNCHANGED ioLog
    /\ pc' = "write"
    /\ UNCHANGED <<args, tree, destDir, docsGo, fs0, recursive, licenseFile, source, dest,
                   files, idx, docs, license, out, stderr, exitCode, funVars>>

\* main, lines 113-115: os.Mkdir when os.Stat fails; its error is dropped
StatMkdir ==
    /\ pc = "stat"
    /\ IF destDir = "missing"
       THEN \E ok \in BOOLEAN :
               /\ ioLog' = Append(ioLog, [op |-> "Mkdir", path |-> dest, ok |-> ok])
               /\ destDir' = IF ok THEN "dir" ELSE "missing"
       ELSE UNCHANGED <<ioLog, destDir>>
    /\ pc' = "write"
    /\ UNCHANGED <<args, tree, docsGo, fs0, recursive, licenseFile, source, dest, files,
                   idx, docs, license, out, stderr, exitCode, funVars>>

\* What ioutil.WriteFile can do: in a missing directory it fails; in a
\* directory it succeeds, fails at opening the file (nothing changes) or
\* fails at writing (the file is left created or truncated).
WriteOutcomes == IF destDir = "missing" THEN {"open-failed"}
                 ELSE {"ok", "open-failed", "write-failed"}

\* the error of ioutil.WriteFile dropped: main returns, exit code 0
WriteFileStepErrorDropped ==
    /\ pc = "write"
    /\ \E res \in WriteOutcomes :
          /\ ioLog' = Append(ioLog, [op |-> "WriteFile", path |-> PathJoin(dest, DocsGo),
                                     ok |-> (res = "ok")])
          /\ docsGo' = IF res = "ok" THEN "written"
                       ELSE IF res = "write-failed" THEN "partial"
                       ELSE docsGo
          /\ exitCode' = 0
          /\ pc' = "exited"
          /\ UNCHANGED stderr
    /\ UNCHANGED <<args, tree, destDir, fs0, recursive, licenseFile, source, dest, files,
                   idx, docs, license, out, funVars>>

\* main, lines 117-123
WriteFileStep ==
    /\ pc = "write"
    /\ \E res \in WriteOutcomes :
          /\ ioLog' = Append(ioLog, [op |-> "WriteFile", path |-> PathJoin(dest, DocsGo),
                                     ok |-> (res = "ok")])
          /\ docsGo' = IF res = "ok" THEN "written"
                       ELSE IF res = "write-failed" THEN "partial"
                       ELSE docsGo
          /\ IF res = "ok"
             THEN /\ exitCode' = 0
                  /\ pc' = "exited"
                  /\ UNCHANGED stderr
             ELSE Fail(ErrorMessage)
    /\ UNCHANGED <<args, tree, destDir, fs0, recursive, licenseFile, source, dest, files,
                   idx, docs, license, out, funVars>>

Next ==
    \/ ScanFlags
    \/ CheckUsage
    \/ ReadFilesStep
    \/ ReadFileStep
    \/ LicenseStep
    \/ BuildOut
    \/ StatMkdir
    \/ WriteFileStep

Spec == Init /\ [][Next]_vars

-----------------------------------------------------------------------------
(* Properties of the run of main() (specification Spec)                    *)

ReadOps == {"ReadDir", "ReadFile"}
WriteOps == {"Mkdir", "WriteFile"}

\* nothing on disk differs from what the run found
DiskUntouched == destDir = fs0.destDir /\ docsGo = fs0.docsGo

NoWriteCalled == \A i \in 1..Len(ioLog) : ioLog[i].op \notin WriteOps

AllReadsOk == \A i \in 1..Len(ioLog) : ioLog[i].op \in ReadOps => ioLog[i].ok

\* an option token of the command line, as opposed to a positional argument
IsOption(a) == a = FlagRecursive \/ HasPrefix(a, LicensePrefix)

NumPositional == Cardinality({i \in 2..Len(args) : ~ IsOption(args[i])})

\* the text read for the i-th collected file, parsed
DocOfFile(i) == parse(files[i], TextAt(source, tree, files[i]))

\* C1 as stated: a run ends either with exit code 0, every collected file
\* parsed and docs.go written, or with a non-zero exit code and nothing on
\* disk created or changed, whatever the failure was.
C1_Original ==
    pc = "exited" =>
        \/ exitCode = 0 /\ Len(docs) = Len(files) /\ docsGo = "written"
        \/ exitCode # 0 /\ DiskUntouched

\* C1 amended: a run ends in one of three ways: exit code 0 with every
\* collected file parsed and docs.go written; exit code 1 before any write
\* call (usage error or a failed read), nothing on disk created or changed;
\* or exit code 1 on a failed write of docs.go, where docs.go does not hold
\* the output but the destination directory may have been created and
\* docs.go may be left created or truncated.
C1_RunOutcomes ==
    pc = "exited" =>
        \/ /\ exitCode = 0
           /\ Len(docs) = Len(files)
           /\ destDir = "dir" /\ docsGo = "written"
           /\ stderr = <<>>
        \/ /\ exitCode = 1
           /\ NoWriteCalled /\ DiskUntouched
           /\ Len(stderr) = 1
        \/ /\ exitCode = 1
           /\ ioLog # <<>>
           /\ ioLog[Len(ioLog)].op = "WriteFile" /\ ~ ioLog[Len(ioLog)].ok
           /\ docsGo \in {fs0.docsGo, "partial"}
           /\ Len(stderr) = 1

\* C1's case: the run failed at the write after it created the directory.
C1_Witness ==
    /\ pc = "exited" /\ exitCode = 1
    /\ fs0.destDir = "missing" /\ destDir = "dir"
    /\ docsGo = "partial"

\* C2 as stated: a command line with fewer than two positional arguments,
\* options not counted, ends with exit code 1 and the usage message, the
\* source directory not read and nothing written.
C2_Original ==
    (NumPositional < 2 /\ pc \notin {"flags", "usage"}) =>
        /\ pc = "exited" /\ exitCode = 1
        /\ stderr = <<UsageMessage>>
        /\ ioLog = <<>>
        /\ DiskUntouched

\* the declarations of the output, block after block
RECURSIVE Flatten(_, _)
Flatten(blocks, i) ==
    IF i > Len(blocks) THEN <<>> ELSE blocks[i] \o Flatten(blocks, i + 1)

\* C4 as stated: records of the same Name are merged, a later file's fields
\* overwriting an earlier one's, so the output declares a constant at most
\* once, with the value of the last collected file that populated it.
C4_Original ==
    docsGo = "written" =>
        LET decls == Flatten(out[1].blocks, 1)
        IN  \A i \in 1..Len(decls) :
               /\ \A j \in 1..Len(decls) : decls[j].name = decls[i].name => j = i
               /\ \E k \in 1..Len(docs) : \E f \in FieldNames :
                     /\ docs[k].Name \o f = decls[i].name
                     /\ FieldOf(docs[k], f) = decls[i].val
                     /\ \A m \in (k + 1)..Len(docs) :
                           docs[m].Name = docs[k].Name => FieldOf(docs[m], f) = <<>>

\* the declarations asked of the block of record d: one per non-empty
\* field, in the order Short, Long, Examples
ExpectedBlock(d) ==
    LET nonEmpty(f) == FieldOf(d, f) # <<>>
        present == SelectSeq(<<Short, Long, Examples>>, nonEmpty)
    IN  [i \in 1..Len(present) |->
            [name |-> d.Name \o present[i], val |-> FieldOf(d, present[i])]]

\* C5: the blocks of the written output are, in order, those of the collected
\* files, one each, and the block of a file declares Name+Short, Name+Long,
\* Name+Examples, in this order, exactly for the non-empty fields of the
\* file's record.
C5_BlockPerFile ==
    docsGo = "written" =>
        /\ Len(out[1].blocks) = Len(files)
        /\ \A i \in 1..Len(files) : out[1].blocks[i] = ExpectedBlock(DocOfFile(i))

\* C5's case: three files written, the first with Short and Long, the second
\* with Short and Examples, the third with no field.
C5_Witness ==
    /\ docsGo = "written"
    /\ Len(files) = 3
    /\ Len(out[1].blocks[1]) = 2 /\ docs[1].Examples = <<>>
    /\ Len(out[1].blocks[2]) = 2 /\ docs[2].Long = <<>>
    /\ out[1].blocks[3] = <<>>

\* C6 as stated: when every read succeeds and the destination directory is
\* missing, the run creates it, writes docs.go and ends with exit code 0.
C6_Original ==
    (pc = "exited" /\ Len(args) >= 3 /\ AllReadsOk /\ fs0.destDir = "missing") =>
        /\ exitCode = 0
        /\ destDir = "dir"
        /\ docsGo = "written"

\* C6 amended: when every read succeeds and the destination directory is
\* missing, the run calls Mkdir for it and then WriteFile for docs.go; it
\* ends with exit code 0 exactly when that write succeeds, and then the
\* directory was created and docs.go is written; when the directory cannot
\* be created the write fails and the run ends with exit code 1, nothing
\* created.
C6_MissingDestDir ==
    (pc = "exited" /\ Len(args) >= 3 /\ AllReadsOk /\ fs0.destDir = "missing") =>
        LET n == Len(ioLog)
        IN  /\ n >= 2
            /\ ioLog[n - 1].op = "Mkdir" /\ ioLog[n - 1].path = dest
            /\ ioLog[n].op = "WriteFile" /\ ioLog[n].path = PathJoin(dest, DocsGo)
            /\ exitCode = 0 <=> ioLog[n].ok
            /\ ioLog[n].ok => (ioLog[n - 1].ok /\ destDir = "dir" /\ docsGo = "written")
            /\ ~ ioLog[n - 1].ok =>
                  (exitCode = 1 /\ destDir = "missing" /\ docsGo = "absent")

\* C6's case: the directory was missing, was created, and docs.go written.
C6_Witness ==
    /\ pc = "exited" /\ exitCode = 0
    /\ fs0.destDir = "missing" /\ destDir = "dir"
    /\ docsGo = "written"
    /\ AllReadsOk

\* C9: a write call (Mkdir, WriteFile) comes only after the listing of the
\* source directory, the read of every collected file and, with a license
\* path, the read of the license file, all successful, and no read follows
\* it; a failed read ends the run with exit code 1, no write call made.
C9_ReadsBeforeWrites ==
    /\ \A i \in 1..Len(ioLog) :
          ioLog[i].op \in WriteOps =>
             /\ \A j \in 1..(i - 1) : ioLog[j].op \in ReadOps => ioLog[j].ok
             /\ \A j \in (i + 1)..Len(ioLog) : ioLog[j].op \in WriteOps
             /\ ioLog[1] = [op |-> "ReadDir", path |-> source, ok |-> TRUE]
             /\ i > Len(files) + 1
             /\ \A k \in 1..Len(files) :
                   ioLog[k + 1] = [op |-> "ReadFile", path |-> files[k], ok |-> TRUE]
             /\ licenseFile \notin {<<>>, None} =>
                   /\ i > Len(files) + 2
                   /\ ioLog[Len(files) + 2] =
                         [op |-> "ReadFile", path |-> licenseFile, ok |-> TRUE]
    /\ ~ AllReadsOk =>
          /\ pc = "exited" /\ exitCode = 1
          /\ NoWriteCalled
          /\ DiskUntouched

\* C9's case: a run with two files and a license file that made both write
\* calls.
C9_Witness ==
    /\ pc = "exited"
    /\ Len(files) = 2
    /\ licenseFile = LicensePath
    /\ Len(ioLog) = 6
    /\ ioLog[5].op = "Mkdir" /\ ioLog[6].op = "WriteFile"

-----------------------------------------------------------------------------
(* Properties of cleanUpContent (specification SpecClean)                  *)

\* the backticks of s are all part of an occurrence of the escape sequence
\* (its first, sixth or eleventh character)
AllBackticksEscaped(s) ==
    \A i \in 1..Len(s) :
        s[i] = Backtick =>
            \E k \in {0, 5, 10} : i > k /\ HasPrefixAt(s, i - k, Escape)

Contains(s, p) == IndexFrom(s, 1, p) # 0

\* C7: whatever the text given to cleanUpContent, every backtick of what it
\* returns is part of an occurrence of the escape sequence; no backtick of
\* the input reaches the output unescaped.
C7_BackticksEscaped == phase = "called" => AllBackticksEscaped(result)

\* C7's case: a text with two backticks on a line that is no delimiter, cleaned.
C7_Witness ==
    /\ phase = "called"
    /\ \E l \in 1..Len(ScanLines(input)) :
          LET line == ScanLines(input)[l]
          IN  /\ ~ HasPrefix(line, Fence)
              /\ Cardinality({i \in 1..Len(line) : line[i] = Backtick}) = 2
    /\ Contains(result, Escape)

\* The lines cleanUpContent works on: those of the text without its leading
\* and trailing newlines.
TrimmedLines(text) == ScanLines(Trim(text, {"\n"}))

\* A fence delimiter as the specification words it: three backticks,
\* optionally followed by a language tag (which holds no backtick).
IsTaggedFence(line) ==
    /\ HasPrefix(line, Fence)
    /\ \A i \in 4..Len(line) : line[i] # Backtick

\* A fence delimiter as any line that begins with three backticks.
IsFencePrefixed(line) == HasPrefix(line, Fence)

\* What the fence rule asks of the output for the lines L, IsDelim telling
\* the delimiters: the other lines in order, backticks escaped, those after
\* an odd number of delimiters behind two spaces, between newlines.
FenceRuleOutput(L, IsDelim(_)) ==
    LET inside(i) == Cardinality({j \in 1..(i - 1) : IsDelim(L[j])}) % 2 = 1
        expected(i) == ReplaceAll((IF inside(i) THEN Indent ELSE <<>>) \o L[i],
                                  <<Backtick>>, Escape)
        kept == {i \in 1..Len(L) : ~ IsDelim(L[i])}
        RECURSIVE from(_)
        from(i) == IF i > Len(L) THEN <<>>
                   ELSE IF i \in kept THEN <<expected(i)>> \o from(i + 1)
                   ELSE from(i + 1)
    IN  <<"\n">> \o Join(from(1), <<"\n">>) \o <<"\n">>

EvenCount(L, IsDelim(_)) == Cardinality({j \in 1..Len(L) : IsDelim(L[j])}) % 2 = 0

\* C8 as stated: with an even number of lines that are three backticks and an
\* optional language tag, the lines between an opening and its closing
\* delimiter come out behind exactly two spaces, the lines outside without
\* prefix, in order, and no delimiter line comes out.
C8_Original ==
    (phase = "called" /\ EvenCount(TrimmedLines(input), IsTaggedFence))
        => result = FenceRuleOutput(TrimmedLines(input), IsTaggedFence)

\* C8 amended: the same with the delimiters being the lines that begin with
\* three backticks, whatever follows them.
C8_FenceToggling ==
    (phase = "called" /\ EvenCount(TrimmedLines(input), IsFencePrefixed))
        => result = FenceRuleOutput(TrimmedLines(input), IsFencePrefixed)

\* C8's case: a line before an opening delimiter and a line between it and
\* the closing delimiter, cleaned.
C8_Witness ==
    /\ phase = "called"
    /\ LET L == TrimmedLines(input)
       IN  /\ Len(L) = 4
           /\ L[1] # <<>> /\ ~ IsFencePrefixed(L[1])
           /\ IsFencePrefixed(L[2])
           /\ ~ IsFencePrefixed(L[3])
           /\ IsFencePrefixed(L[4])
           /\ result = <<"\n">> \o L[1] \o <<"\n">> \o Indent \o L[3] \o <<"\n">>

-----------------------------------------------------------------------------
(* Properties of parse (specification SpecParse). The tagged regions of a  *)
(* text are the matches of the two expressions.                            *)

\* the positions of the matches for field f in the list ms
MatchesFor(ms, f) == {i \in 1..Len(ms) : ms[i].field = f}

\* what parse stores for a region of field f with this content
Converted(f, content) == IF f = Short THEN TrimSpace(content) ELSE cleanUpContent(content)

IsBlank(content) == \A i \in 1..Len(content) : content[i] \in WhiteSpace

\* C3 as stated: each of Short, Long and Examples is non-empty in the record
\* parse returns if and only if the text holds a tagged region for it.
C3_Original ==
    phase = "called" =>
        \A f \in FieldNames :
            FieldOf(result, f) # <<>> <=> MatchesFor(Matches(input), f) # {}

\* C3 amended: Long and Examples are non-empty if and only if the text holds
\* a tagged region for them; Short is non-empty if and only if the text holds
\* a tagged region for it and the content of the last one processed is not
\* blank. A text without tagged regions gives three empty fields.
C3_PopulatedIffRegion ==
    phase = "called" =>
        LET ms == Matches(input)
        IN  /\ \A f \in {Long, Examples} :
                  FieldOf(result, f) # <<>> <=> MatchesFor(ms, f) # {}
            /\ result.Short # <<>> <=>
                  /\ MatchesFor(ms, Short) # {}
                  /\ ~ IsBlank(ms[Max(MatchesFor(ms, Short))].content)

\* C3's case: a text with a blank Short region and a Long region, parsed.
C3_Witness ==
    /\ phase = "called"
    /\ MatchesFor(Matches(input), Short) # {}
    /\ MatchesFor(Matches(input), Long) # {}
    /\ result.Short = <<>>
    /\ result.Long # <<>>
    /\ result.Examples = <<>>

\* C10: a field with several tagged regions in one text takes the value of
\* exactly one of them: of the last hidden-form region for it when there is
\* one, wherever the visible-form regions are, and of the last visible-form
\* region otherwise; and a region ends at the nearest closing marker after
\* its opening, so its content holds no closing marker of its form.
C10_LastProcessedWins ==
    phase = "called" =>
        LET vis == FindAllTag(input, 1)
            hid == FindAllInternalTag(input, 1)
        IN  /\ \A f \in FieldNames :
                  FieldOf(result, f) =
                      IF MatchesFor(hid, f) # {}
                      THEN Converted(f, hid[Max(MatchesFor(hid, f))].content)
                      ELSE IF MatchesFor(vis, f) # {}
                      THEN Converted(f, vis[Max(MatchesFor(vis, f))].content)
                      ELSE <<>>
            /\ \A i \in 1..Len(vis) : ~ Contains(vis[i].content, TagClose)
            /\ \A i \in 1..Len(hid) : ~ Contains(hid[i].content, TagEnd)

\* C10's case: a hidden-form Long region holding x, then a visible-form Long
\* region holding nothing; Long is the hidden one's content.
C10_Witness ==
    /\ phase = "called"
    /\ input = TagOpen \o Long \o <<" ", "x">> \o TagEnd
                   \o TagOpen \o Long \o TagEnd \o TagClose
    /\ result.Long = <<"\n", "x", "\n">>

=============================================================================
